---- MODULE Spec2Model ----
(***************************************************************************)
(* Model of src/src/lib.rs: NamedSemaphore, a handle over a POSIX named    *)
(* semaphore (sem_open / sem_post / sem_wait / sem_getvalue / sem_close).  *)
(*                                                                         *)
(* The state is the operating system's name space of semaphores, the table *)
(* of NamedSemaphore values that have been constructed, and the position   *)
(* of every caller.  A caller is a single-threaded process: NamedSemaphore *)
(* holds a raw pointer, so it is neither Send nor Sync and a handle never  *)
(* leaves the thread that built it.  Every libc call is one atomic step;   *)
(* open_or_create makes two of them and other callers may run in between.  *)
(*                                                                         *)
(* Environment: the OS answers as POSIX sem_overview(7) documents (ENOENT,  *)
(* EEXIST, EINVAL for a value above SEM_VALUE_MAX, EOVERFLOW, a blocking    *)
(* sem_wait).  Failures for lack of resources or of permission (EMFILE,    *)
(* ENOMEM, EACCES, EINTR) are not part of the model, and nothing in the    *)
(* model unlinks a name (lib.rs never calls sem_unlink).                   *)
(***************************************************************************)
EXTENDS Integers, Sequences, FiniteSets, TLC

\* ---------------------------------------------------------------- bounds
\* Number of calling processes.
NProcs == 2
\* Number of NamedSemaphore values that may be constructed in one run.
MaxHandles == 2
\* Stands for the OS limit SEM_VALUE_MAX (i32::MAX on Linux).
SemValueMax == 1

Procs == 1..NProcs
HandleIds == 1..MaxHandles

\* `value: u32` reaches beyond SEM_VALUE_MAX: one representative above it.
Values == 0..(SemValueMax + 1)

\* ---------------------------------------------------------------- libc constants
O_CREAT == 64
O_EXCL == 128
S_IRWXU == 448
S_IRWXG == 56
S_IRWXO == 7

\* Test of a single-bit flag b (a power of two) in x.
HasBit(x, b) == (x \div b) % 2 = 1

\* Bitwise or of two masks, bit by bit over the bits given.
RECURSIVE BitOrOver(_, _, _)
BitOrOver(x, y, bits) ==
    IF bits = {} THEN 0
    ELSE LET b == CHOOSE c \in bits : TRUE
         IN (IF HasBit(x, b) \/ HasBit(y, b) THEN b ELSE 0)
            + BitOrOver(x, y, bits \ {b})

AllBits == {1, 2, 4, 8, 16, 32, 64, 128, 256}
BitOr(x, y) == BitOrOver(x, y, AllBits)

\* ---------------------------------------------------------------- SemFSMode
SemFSMode_GROUP == S_IRWXG
SemFSMode_OTHER == S_IRWXO
SemFSMode_USER == S_IRWXU
SemFSMode_ALL == BitOr(BitOr(SemFSMode_GROUP, SemFSMode_OTHER), SemFSMode_USER)

\* The SemFSMode values: the unions of the named flags, SemFSMode::empty()
\* being the union of none.
RECURSIVE SemFSMode_union(_)
SemFSMode_union(flags) ==
    IF flags = {} THEN 0
    ELSE LET f == CHOOSE g \in flags : TRUE
         IN BitOr(f, SemFSMode_union(flags \ {f}))

SemFSModes ==
    {SemFSMode_union(flags) :
        flags \in SUBSET {SemFSMode_GROUP, SemFSMode_OTHER, SemFSMode_USER}}

\* The mode a caller passes in the model (the one the tests pass).
Modes == {SemFSMode_ALL}

\* ---------------------------------------------------------------- SemOFlags
SemOFlags_CREATE == O_CREAT
SemOFlags_OPEN == 0
\* Variant of SemOFlags_CREATE_EXCL: the exclusivity bit alone.
SemOFlags_CREATE_EXCL_bare == O_EXCL

SemOFlags_CREATE_EXCL == BitOr(SemOFlags_CREATE, O_EXCL)

\* ---------------------------------------------------------------- names
\* Names are byte strings: "A" and "A\0B".
NameA == <<65>>
NameNul == <<65, 0, 66>>
Names == {NameA, NameNul}
NoName == <<>>

\* Variant of CStringNew: the bytes are not scanned for a NUL.
CStringNew_unchecked(bytes) == [ok |-> TRUE, ptr |-> bytes \o <<0>>]

\* CString::new(name.as_bytes()): an interior NUL byte is an error, otherwise
\* the bytes followed by the terminator.
CStringNew(bytes) ==
    IF \E i \in 1..Len(bytes) : bytes[i] = 0
    THEN [ok |-> FALSE, ptr |-> NoName]
    ELSE [ok |-> TRUE, ptr |-> bytes \o <<0>>]

\* What the OS reads at a `const char *`: the bytes before the first NUL.
StrLen(ptr) ==
    CHOOSE n \in 0..(Len(ptr) - 1) :
        /\ ptr[n + 1] = 0
        /\ \A j \in 1..n : ptr[j] # 0
CStr(ptr) == SubSeq(ptr, 1, StrLen(ptr))

\* The names the OS can hold in the model.
OsNames == {NameA}

\* ---------------------------------------------------------------- state
VARIABLES
    sems,     \* OS name space: for each OS name, whether a semaphore exists, its count and mode
    handles,  \* the NamedSemaphore values constructed so far
    pc,       \* where each process is: "idle", "ooc" (between the two steps of
              \* open_or_create) or "blocked" (inside sem_wait)
    frame,    \* the arguments of the call a process is inside
    last,     \* record of the call that took the latest step
    rt,       \* per handle: the run of posts and waits made through it alone
    acct,     \* per OS name: the initial count of the call that made it, plus
              \* the posts and minus the waits that have returned Ok since
    maps      \* per process and OS name: the references the process holds on
              \* its mapping of the semaphore (one per sem_open, less one per
              \* sem_close)

vars == <<sems, handles, pc, frame, last, rt, acct, maps>>

NoSem == [exists |-> FALSE, value |-> 0, mode |-> 0]
NoHandle == [st |-> "unused", owner |-> 0, raw |-> NoName, closes |-> 0]
NoFrame == [name |-> NoName, fresh |-> FALSE, sys |-> 0, openres |-> "none", h |-> 0]
NoRun == [on |-> FALSE, base |-> 0, bal |-> 0]
NoCall == [op |-> "none", name |-> NoName, value |-> 0,
           excl |-> FALSE, fresh |-> FALSE, res |-> "none", h |-> 0, val |-> 0,
           opens |-> 0, creates |-> 0, sys |-> 0, openres |-> "none",
           createres |-> "none", oflag |-> 0, sent |-> FALSE, mode |-> 0]

\* No semaphore is named by these bytes (read as the caller wrote them).
Fresh(name) == name \notin OsNames \/ ~sems[name].exists

\* ---------------------------------------------------------------- the OS
\* libc::SEM_FAILED: no name, since a name has no NUL byte.
SEM_FAILED == <<0>>

\* sem_open(3).  `sent` tells whether the variadic mode and value were passed;
\* the OS reads them only when O_CREAT is set.  The result is the set of
\* outcomes the OS may give: the address returned (the model's address of a
\* mapped semaphore is its OS name) or SEM_FAILED with errno, and the new name
\* space.
\* With O_CREAT|O_EXCL, an existing name and a value above SEM_VALUE_MAX both
\* errors apply and libc implementations differ in which one they report.
sem_open(ptr, oflag, sent, mode, value) ==
    LET n == CStr(ptr)
        s == sems[n]
        attach == [raw |-> n, errno |-> "", sems |-> sems]
        made == [raw |-> n, errno |-> "",
                 sems |-> [sems EXCEPT ![n] =
                              [exists |-> TRUE, value |-> value, mode |-> mode]]]
        fail(e) == [raw |-> SEM_FAILED, errno |-> e, sems |-> sems]
    IN  IF ~HasBit(oflag, O_CREAT)
        THEN IF s.exists THEN {attach} ELSE {fail("ENOENT")}
        ELSE IF HasBit(oflag, O_EXCL)
        THEN IF s.exists
             THEN {fail("EEXIST")} \cup
                  (IF value > SemValueMax THEN {fail("EINVAL")} ELSE {})
             ELSE IF value > SemValueMax THEN {fail("EINVAL")} ELSE {made}
        ELSE IF s.exists THEN {attach}
             ELSE IF value > SemValueMax THEN {fail("EINVAL")} ELSE {made}

\* sem_post(3): one more, or EOVERFLOW at SEM_VALUE_MAX.
sem_post(n) ==
    IF sems[n].value >= SemValueMax
    THEN [res |-> -1, errno |-> "EOVERFLOW", sems |-> sems]
    ELSE [res |-> 0, errno |-> "",
          sems |-> [sems EXCEPT ![n].value = sems[n].value + 1]]

\* sem_wait(3): takes one when the count is above zero, otherwise the caller
\* stays inside the call.
sem_wait(n) ==
    IF sems[n].value > 0
    THEN [blocks |-> FALSE, res |-> 0, errno |-> "",
          sems |-> [sems EXCEPT ![n].value = sems[n].value - 1]]
    ELSE [blocks |-> TRUE, res |-> 0, errno |-> "", sems |-> sems]

\* Variant of sem_close: closing also removes the name.
sem_close_unlink(n) == [sems EXCEPT ![n] = NoSem]

\* sem_close(3): unmaps the semaphore from the caller; the name space after it.
sem_close(n) == sems

\* sem_getvalue(3): stores the count in *sval (Linux never reports waiters).
sem_getvalue(n) == [res |-> 0, errno |-> "", sval |-> sems[n].value]

\* ---------------------------------------------------------------- constructors
\* The slot the next constructed NamedSemaphore takes.
FreeSlots == {h \in HandleIds : handles[h].st = "unused"}
NextSlot == CHOOSE h \in FreeSlots : \A k \in FreeSlots : h <= k

\* Variant of create_call: the initial count is not passed on.
create_call_value0(name, mode, value, create_exclusive) ==
    LET c == CStringNew(name)
        oflags == IF create_exclusive THEN SemOFlags_CREATE_EXCL
                  ELSE SemOFlags_CREATE
    IN  IF ~c.ok
        THEN {[res |-> "NulError", sys |-> 0, raw |-> SEM_FAILED, sems |-> sems,
               oflag |-> 0, sent |-> FALSE, mode |-> 0]}
        ELSE {[res |-> IF o.raw = SEM_FAILED THEN o.errno ELSE "Ok", sys |-> 1,
               raw |-> o.raw,
               sems |-> o.sems, oflag |-> oflags, sent |-> TRUE,
               mode |-> mode] :
                  o \in sem_open(c.ptr, oflags, TRUE, mode, 0)}

\* Variant of create_call: create_exclusive is not looked at.
create_call_no_excl(name, mode, value, create_exclusive) ==
    LET c == CStringNew(name)
        oflags == SemOFlags_CREATE
    IN  IF ~c.ok
        THEN {[res |-> "NulError", sys |-> 0, raw |-> SEM_FAILED, sems |-> sems,
               oflag |-> 0, sent |-> FALSE, mode |-> 0]}
        ELSE {[res |-> IF o.raw = SEM_FAILED THEN o.errno ELSE "Ok", sys |-> 1,
               raw |-> o.raw,
               sems |-> o.sems, oflag |-> oflags, sent |-> TRUE,
               mode |-> mode] :
                  o \in sem_open(c.ptr, oflags, TRUE, mode, value)}

\* Variant of create_call: the request is always exclusive.
create_call_always_excl(name, mode, value, create_exclusive) ==
    LET c == CStringNew(name)
        oflags == SemOFlags_CREATE_EXCL
    IN  IF ~c.ok
        THEN {[res |-> "NulError", sys |-> 0, raw |-> SEM_FAILED, sems |-> sems,
               oflag |-> 0, sent |-> FALSE, mode |-> 0]}
        ELSE {[res |-> IF o.raw = SEM_FAILED THEN o.errno ELSE "Ok", sys |-> 1,
               raw |-> o.raw,
               sems |-> o.sems, oflag |-> oflags, sent |-> TRUE,
               mode |-> mode] :
                  o \in sem_open(c.ptr, oflags, TRUE, mode, value)}

\* NamedSemaphore::create as a function of its arguments: the possible results.
create_call(name, mode, value, create_exclusive) ==
    LET c == CStringNew(name)
        oflags == IF create_exclusive THEN SemOFlags_CREATE_EXCL
                  ELSE SemOFlags_CREATE
    IN  IF ~c.ok
        THEN {[res |-> "NulError", sys |-> 0, raw |-> SEM_FAILED, sems |-> sems,
               oflag |-> 0, sent |-> FALSE, mode |-> 0]}
        ELSE {[res |-> IF o.raw = SEM_FAILED THEN o.errno ELSE "Ok", sys |-> 1,
               raw |-> o.raw,
               sems |-> o.sems, oflag |-> oflags, sent |-> TRUE,
               mode |-> mode] :
                  o \in sem_open(c.ptr, oflags, TRUE, mode, value)}

\* Variant of open_call: the request asks for creation.
open_call_creates(name) ==
    LET c == CStringNew(name)
    IN  IF ~c.ok
        THEN {[res |-> "NulError", sys |-> 0, raw |-> SEM_FAILED, sems |-> sems,
               oflag |-> 0, sent |-> FALSE, mode |-> 0]}
        ELSE {[res |-> IF o.raw = SEM_FAILED THEN o.errno ELSE "Ok", sys |-> 1,
               raw |-> o.raw,
               sems |-> o.sems, oflag |-> SemOFlags_CREATE, sent |-> TRUE,
               mode |-> SemFSMode_ALL] :
                  o \in sem_open(c.ptr, SemOFlags_CREATE, TRUE, SemFSMode_ALL, 0)}

\* NamedSemaphore::open as a function of its argument.
open_call(name) ==
    LET c == CStringNew(name)
    IN  IF ~c.ok
        THEN {[res |-> "NulError", sys |-> 0, raw |-> SEM_FAILED, sems |-> sems,
               oflag |-> 0, sent |-> FALSE, mode |-> 0]}
        ELSE {[res |-> IF o.raw = SEM_FAILED THEN o.errno ELSE "Ok", sys |-> 1,
               raw |-> o.raw,
               sems |-> o.sems, oflag |-> SemOFlags_OPEN, sent |-> FALSE,
               mode |-> 0] :
                  o \in sem_open(c.ptr, SemOFlags_OPEN, FALSE, 0, 0)}

\* Ok(Self { raw }): the new value takes the next slot; an Err builds nothing.
Construct(p, r) ==
    IF r.res = "Ok"
    THEN [handles EXCEPT ![NextSlot] =
             [st |-> "live", owner |-> p, raw |-> r.raw, closes |-> 0]]
    ELSE handles

Returned(r) == IF r.res = "Ok" THEN NextSlot ELSE 0

\* The record of a constructor call that has returned.
Called(op, name, value, excl, fresh, r, opens, creates, sys, openres, createres) ==
    [op |-> op, name |-> name, value |-> value,
     excl |-> excl, fresh |-> fresh, res |-> r.res, h |-> Returned(r), val |-> 0,
     opens |-> opens, creates |-> creates, sys |-> sys, openres |-> openres,
     createres |-> createres, oflag |-> r.oflag, sent |-> r.sent,
     mode |-> r.mode]

\* A new value starts no run; nothing else about the runs changes.
RtConstructed(r) == IF r.res = "Ok" THEN [rt EXCEPT ![NextSlot] = NoRun] ELSE rt

\* The account of a semaphore starts at the initial count of the call that
\* made it: a create that returned Ok on a name not in use.
AcctMade(name, value, r) ==
    IF r.res = "Ok" /\ Fresh(name) THEN [acct EXCEPT ![r.raw] = value] ELSE acct

\* A sem_open that returned a semaphore adds one reference to p's mapping.
MapsOpened(p, r) ==
    IF r.res = "Ok" THEN [maps EXCEPT ![p][r.raw] = @ + 1] ELSE maps

\* NamedSemaphore::create(name, mode, value, create_exclusive), called by p.
create(p, name, mode, value, create_exclusive) ==
    /\ pc[p] = "idle"
    /\ FreeSlots # {}
    /\ \E r \in create_call(name, mode, value, create_exclusive) :
        /\ sems' = r.sems
        /\ handles' = Construct(p, r)
        /\ rt' = RtConstructed(r)
        /\ last' = Called("create", name, value, create_exclusive,
                          Fresh(name), r, 0, 1, r.sys, "none", r.res)
        /\ acct' = AcctMade(name, value, r)
        /\ maps' = MapsOpened(p, r)
    /\ UNCHANGED <<pc, frame>>

\* NamedSemaphore::open(name), called by p.
open(p, name) ==
    /\ pc[p] = "idle"
    /\ FreeSlots # {}
    /\ \E r \in open_call(name) :
        /\ sems' = r.sems
        /\ handles' = Construct(p, r)
        /\ rt' = RtConstructed(r)
        /\ last' = Called("open", name, 0, FALSE, Fresh(name), r,
                          1, 0, r.sys, r.res, "none")
        /\ maps' = MapsOpened(p, r)
    /\ UNCHANGED <<pc, frame, acct>>

\* Variants of FallsBack: create is tried whatever open returned; create is
\* tried only when open found no semaphore.
FallsBack_always(r) == TRUE
FallsBack_enoent(r) == r.res = "ENOENT"

\* What open_or_create does with the result of its open: Ok(raw) => Ok(raw),
\* anything else goes on to create.
FallsBack(r) == r.res # "Ok"

\* NamedSemaphore::open_or_create, first step: Self::open(name).  The call reads
\* mode, value and create_exclusive only if it goes on to create, so the model
\* draws them in the second step.
open_or_create(p, name) ==
    /\ pc[p] = "idle"
    /\ FreeSlots # {}
    /\ \E r \in open_call(name) :
        /\ sems' = r.sems
        /\ IF FallsBack(r)
           THEN /\ pc' = [pc EXCEPT ![p] = "ooc"]
                /\ frame' = [frame EXCEPT ![p] =
                      [name |-> name, fresh |-> Fresh(name),
                       sys |-> r.sys, openres |-> r.res, h |-> 0]]
                /\ last' = [Called("open_or_create", name, 0, FALSE,
                                   Fresh(name), r, 1, 0, r.sys,
                                   r.res, "none") EXCEPT !.res = "pending"]
                /\ UNCHANGED <<handles, rt, maps>>
           ELSE /\ handles' = Construct(p, r)
                /\ rt' = RtConstructed(r)
                /\ last' = Called("open_or_create", name, 0, FALSE,
                                  Fresh(name), r, 1, 0, r.sys, r.res, "none")
                /\ maps' = MapsOpened(p, r)
                /\ UNCHANGED <<pc, frame>>
        /\ acct' = acct

\* NamedSemaphore::open_or_create, second step: Self::create(name, mode, value,
\* create_exclusive), whose result is the result of the call.
open_or_create_fallback(p, mode, value, create_exclusive) ==
    /\ pc[p] = "ooc"
    /\ FreeSlots # {}
    /\ LET f == frame[p]
       IN \E r \in create_call(f.name, mode, value, create_exclusive) :
            /\ sems' = r.sems
            /\ handles' = Construct(p, r)
            /\ rt' = RtConstructed(r)
            /\ last' = Called("open_or_create", f.name, value, create_exclusive,
                              f.fresh, r, 1, 1, f.sys + r.sys, f.openres, r.res)
            /\ acct' = AcctMade(f.name, value, r)
            /\ maps' = MapsOpened(p, r)
    /\ pc' = [pc EXCEPT ![p] = "idle"]
    /\ frame' = [frame EXCEPT ![p] = NoFrame]

\* ---------------------------------------------------------------- operations
\* h is a NamedSemaphore that p owns and has not dropped.
Owns(p, h) == handles[h].st = "live" /\ handles[h].owner = p

\* The run of handle h after a post (d = 1) or a wait (d = -1) through it:
\* h's run goes on, a run of any other value on the same semaphore is broken.
RtStep(h, d) ==
    [k \in HandleIds |->
        IF k = h
        THEN IF rt[h].on THEN [rt[h] EXCEPT !.bal = rt[h].bal + d]
             ELSE [on |-> TRUE, base |-> sems[handles[h].raw].value, bal |-> d]
        ELSE IF handles[k].raw = handles[h].raw THEN NoRun ELSE rt[k]]

\* The account of the semaphore behind h after a post (d = 1) or a wait
\* (d = -1) through h returned res.
AcctStep(h, res, d) ==
    IF res = "Ok" THEN [acct EXCEPT ![handles[h].raw] = @ + d] ELSE acct

\* The record of a post, wait, get_value or drop.
Did(op, p, h, res, val) ==
    [NoCall EXCEPT !.op = op, !.h = h, !.res = res, !.val = val]

\* Variant of post_call: the wrong libc call.
post_call_wait(n) ==
    LET o == sem_wait(n)
    IN  [blocks |-> FALSE, res |-> IF o.res = -1 THEN o.errno ELSE "Ok", sems |-> o.sems]

\* Variant of post_call: the increment is lost, the call still returns Ok.
post_call_lost(n) ==
    LET o == sem_post(n)
    IN  [blocks |-> FALSE, res |-> IF o.res = -1 THEN o.errno ELSE "Ok", sems |-> sems]

\* Variant of post_call: the result of sem_post is not looked at.
post_call_ignore_err(n) ==
    LET o == sem_post(n)
    IN  [blocks |-> FALSE, res |-> "Ok", sems |-> o.sems]

\* The body of post on a value whose raw is n: libc::sem_post, -1 is an Err.
post_call(n) ==
    LET o == sem_post(n)
    IN  [blocks |-> FALSE, res |-> IF o.res = -1 THEN o.errno ELSE "Ok", sems |-> o.sems]

\* NamedSemaphore::post(&self).
post(p, h) ==
    /\ pc[p] = "idle"
    /\ Owns(p, h)
    /\ LET o == post_call(handles[h].raw)
       IN /\ sems' = o.sems
          /\ last' = Did("post", p, h, o.res, 0)
          /\ rt' = IF o.res = "Ok" THEN RtStep(h, 1) ELSE rt
          /\ acct' = AcctStep(h, o.res, 1)
    /\ UNCHANGED <<handles, pc, frame, maps>>

\* Variant of wait_call: the wrong libc call.
wait_call_post(n) ==
    LET o == sem_post(n)
    IN  [blocks |-> FALSE, res |-> IF o.res = -1 THEN o.errno ELSE "Ok", sems |-> o.sems]

\* Variant of wait_call: a wait that would have to block returns Ok at once.
wait_call_trywait(n) ==
    LET o == sem_wait(n)
    IN  [blocks |-> FALSE, res |-> IF o.res = -1 THEN o.errno ELSE "Ok",
         sems |-> o.sems]

\* Variant of wait_call: the call never comes back from sem_wait.
wait_call_stuck(n) ==
    LET o == sem_wait(n)
    IN  [blocks |-> TRUE, res |-> IF o.res = -1 THEN o.errno ELSE "Ok",
         sems |-> sems]

\* The body of wait on a value whose raw is n: libc::sem_wait, -1 is an Err.
wait_call(n) ==
    LET o == sem_wait(n)
    IN  [blocks |-> o.blocks, res |-> IF o.res = -1 THEN o.errno ELSE "Ok",
         sems |-> o.sems]

\* NamedSemaphore::wait(&self): returns at once, or p is now inside sem_wait.
wait(p, h) ==
    /\ pc[p] = "idle"
    /\ Owns(p, h)
    /\ LET o == wait_call(handles[h].raw)
       IN /\ sems' = o.sems
          /\ IF o.blocks
             THEN /\ pc' = [pc EXCEPT ![p] = "blocked"]
                  /\ frame' = [frame EXCEPT ![p] = [NoFrame EXCEPT !.h = h]]
                  /\ last' = Did("wait", p, h, "blocked", 0)
                  /\ UNCHANGED <<rt, acct>>
             ELSE /\ last' = Did("wait", p, h, o.res, 0)
                  /\ rt' = IF o.res = "Ok" THEN RtStep(h, -1) ELSE rt
                  /\ acct' = AcctStep(h, o.res, -1)
                  /\ UNCHANGED <<pc, frame>>
    /\ UNCHANGED <<handles, maps>>

\* The sem_wait that p is inside returns, and so does NamedSemaphore::wait.
wait_wake(p) ==
    /\ pc[p] = "blocked"
    /\ LET h == frame[p].h
           o == wait_call(handles[h].raw)
       IN /\ ~o.blocks
          /\ sems' = o.sems
          /\ last' = Did("wait", p, h, o.res, 0)
          /\ rt' = IF o.res = "Ok" THEN RtStep(h, -1) ELSE rt
          /\ acct' = AcctStep(h, o.res, -1)
    /\ pc' = [pc EXCEPT ![p] = "idle"]
    /\ frame' = [frame EXCEPT ![p] = NoFrame]
    /\ UNCHANGED <<handles, maps>>

\* Variant of get_value_call: the local `val` is returned as it was initialised.
get_value_call_unread(n) ==
    LET o == sem_getvalue(n)
    IN  IF o.res = -1 THEN [res |-> o.errno, val |-> 0]
        ELSE [res |-> "Ok", val |-> 0]

\* What get_value returns through a handle on OS name n: Ok(val), val being
\* what sem_getvalue stored.
get_value_call(n) ==
    LET o == sem_getvalue(n)
    IN  IF o.res = -1 THEN [res |-> o.errno, val |-> 0]
        ELSE [res |-> "Ok", val |-> o.sval]

\* NamedSemaphore::get_value(&self).
get_value(p, h) ==
    /\ pc[p] = "idle"
    /\ Owns(p, h)
    /\ LET g == get_value_call(handles[h].raw)
       IN last' = Did("get_value", p, h, g.res, g.val)
    /\ UNCHANGED <<sems, handles, pc, frame, rt, acct, maps>>

\* Variant of drop_closes: the value is closed twice.
drop_closes_twice(h) == 2

\* The sem_close calls Drop::drop makes on a value.
drop_closes(h) == 1

\* Each sem_close drop makes on h takes one reference from p's mapping of the
\* semaphore; at none the mapping is gone.
MapsClosed(p, h) ==
    LET c == drop_closes(h)
    IN  [maps EXCEPT ![p][handles[h].raw] = IF @ >= c THEN @ - c ELSE 0]

\* Variant of drop: dropping one value closes every value p holds on the same
\* semaphore.
drop_by_name(p, h) ==
    /\ pc[p] = "idle"
    /\ Owns(p, h)
    /\ sems' = sem_close(handles[h].raw)
    /\ handles' = [k \in HandleIds |->
                     IF Owns(p, k) /\ handles[k].raw = handles[h].raw
                     THEN [st |-> "dropped", owner |-> 0, raw |-> NoName,
                           closes |-> handles[k].closes + drop_closes(k)]
                     ELSE handles[k]]
    /\ rt' = [rt EXCEPT ![h] = NoRun]
    /\ last' = Did("drop", p, h, "Ok", 0)
    /\ maps' = [maps EXCEPT ![p][handles[h].raw] = 0]
    /\ UNCHANGED <<pc, frame, acct>>

\* Drop::drop(&mut self): p's value h goes out of scope.  A value that is
\* borrowed by a wait in progress cannot be dropped.  Of a dropped value only
\* the number of sem_close calls made on it is kept.
drop(p, h) ==
    /\ pc[p] = "idle"
    /\ Owns(p, h)
    /\ sems' = sem_close(handles[h].raw)
    /\ handles' = [handles EXCEPT ![h] =
                     [st |-> "dropped", owner |-> 0, raw |-> NoName,
                      closes |-> handles[h].closes + drop_closes(h)]]
    /\ rt' = [rt EXCEPT ![h] = NoRun]
    /\ last' = Did("drop", p, h, "Ok", 0)
    /\ maps' = MapsClosed(p, h)
    /\ UNCHANGED <<pc, frame, acct>>

\* ---------------------------------------------------------------- specification
Init ==
    /\ sems = [n \in OsNames |-> NoSem]
    /\ handles = [h \in HandleIds |-> NoHandle]
    /\ pc = [p \in Procs |-> "idle"]
    /\ frame = [p \in Procs |-> NoFrame]
    /\ last = NoCall
    /\ rt = [h \in HandleIds |-> NoRun]
    /\ acct = [n \in OsNames |-> 0]
    /\ maps = [p \in Procs |-> [n \in OsNames |-> 0]]

Next ==
    \/ \E p \in Procs, name \in Names, mode \in Modes, value \in Values,
          create_exclusive \in BOOLEAN :
            create(p, name, mode, value, create_exclusive)
    \/ \E p \in Procs, name \in Names : open(p, name)
    \/ \E p \in Procs, name \in Names : open_or_create(p, name)
    \/ \E p \in Procs, mode \in Modes, value \in Values, create_exclusive \in BOOLEAN :
            open_or_create_fallback(p, mode, value, create_exclusive)
    \/ \E p \in Procs, h \in HandleIds : post(p, h)
    \/ \E p \in Procs, h \in HandleIds : wait(p, h)
    \/ \E p \in Procs : wait_wake(p)
    \/ \E p \in Procs, h \in HandleIds : get_value(p, h)
    \/ \E p \in Procs, h \in HandleIds : drop(p, h)

Spec == Init /\ [][Next]_vars

\* Scheduling: a caller inside sem_wait is a runnable thread of the OS as soon
\* as the count is above zero; if it stays so, the caller is run in the end.
\* Nothing obliges a process to make a call.
Fairness == \A p \in Procs : WF_vars(wait_wake(p))

SpecFair == Init /\ [][Next]_vars /\ Fairness

\* The constructors and drop called by one process with every SemFSMode value
\* and the initial count 0: the requests the wrapper encodes.
NextModes ==
    \/ \E p \in {1}, name \in Names, mode \in SemFSModes, value \in {0},
          create_exclusive \in BOOLEAN :
            create(p, name, mode, value, create_exclusive)
    \/ \E p \in {1}, name \in Names : open(p, name)
    \/ \E p \in {1}, name \in Names : open_or_create(p, name)
    \/ \E p \in {1}, mode \in SemFSModes, value \in {0},
          create_exclusive \in BOOLEAN :
            open_or_create_fallback(p, mode, value, create_exclusive)
    \/ \E p \in {1}, h \in HandleIds : drop(p, h)

SpecModes == Init /\ [][NextModes]_vars

\* ---------------------------------------------------------------- claims
\* The arguments the claims about ordinary calls range over are well formed: a
\* name without a NUL byte (the malformed name is the subject of C6) and an
\* initial count that sem_open accepts (a larger one is answered EINVAL).
HasNul(name) == \E i \in 1..Len(name) : name[i] = 0
ValidCount(v) == v <= SemValueMax
Constructors == {"create", "open", "open_or_create"}
Live == {h \in HandleIds : handles[h].st = "live"}
Dropped == {h \in HandleIds : handles[h].st = "dropped"}

C3_PostWaitByOne ==
    [][\A h \in HandleIds :
          /\ (last'.op = "post" /\ last'.h = h /\ last'.res = "Ok")
             => /\ get_value_call(handles[h].raw).res = "Ok"
                /\ (get_value_call(handles[h].raw).res = "Ok")'
                /\ (get_value_call(handles[h].raw).val)'
                      = get_value_call(handles[h].raw).val + 1
          /\ (/\ last'.op = "wait"
              /\ last'.h = h
              /\ get_value_call(handles[h].raw).val >= 1)
             => /\ \A p \in Procs : pc[p] = "idle" => pc'[p] = "idle"
                /\ last'.res = "Ok"
                /\ (get_value_call(handles[h].raw).val)'
                      = get_value_call(handles[h].raw).val - 1]_vars

C3_Witness ==
    /\ last.op = "post"
    /\ last.res = "Ok"
    /\ get_value_call(handles[last.h].raw).val = SemValueMax

\* C4: posts and waits made through one handle with nothing else touching the
\* semaphore move the count by their balance: after as many waits as posts the
\* count is what it was before the first of them.
C4_RoundTrip ==
    \A h \in HandleIds :
        (rt[h].on /\ h \in Live)
        => /\ sems[handles[h].raw].value = rt[h].base + rt[h].bal
           /\ (rt[h].bal = 0 => get_value_call(handles[h].raw).val = rt[h].base)

C4_Witness ==
    /\ last.op = "wait"
    /\ last.res = "Ok"
    /\ rt[last.h].on
    /\ rt[last.h].bal = 0
    /\ rt[last.h].base = 0

\* C5: open_or_create on a name that exists with count N returns a handle that
\* observes N and leaves the semaphore as it was, whatever initial count and
\* exclusivity the caller supplies.
C5_OpenOrCreateKeepsCount ==
    [][(/\ last'.op = "open_or_create"
        /\ last'.creates = 0
        /\ ~last'.fresh)
          => /\ sems' = sems
             /\ pc' = pc
             /\ last'.res = "Ok"
             /\ last'.h \in Live'
             /\ (get_value_call(handles[last.h].raw).val)' = sems[last'.name].value]_vars

C5_Witness ==
    /\ last.op = "open_or_create"
    /\ ~last.fresh
    /\ last.res = "Ok"
    /\ last.creates = 0
    /\ sems[NameA].value = SemValueMax
    /\ get_value_call(handles[last.h].raw).val = SemValueMax

\* C6: a constructor given a name with an embedded NUL fails with the
\* name-encoding error without any sem_open request (for open_or_create neither
\* the open nor the create reaches the OS), returns no handle, and leaves the
\* semaphores and their counts as they were.
C6_NulNameNoSyscall ==
    [][(last'.op \in Constructors /\ HasNul(last'.name))
          => /\ last'.sys = 0
             /\ last'.h = 0
             /\ last'.openres \in {"none", "NulError"}
             /\ last'.createres \in {"none", "NulError"}
             /\ last'.res \in {"NulError", "pending"}
             /\ (last'.res = "pending" <=> (last'.op = "open_or_create" /\ last'.creates = 0))
             /\ sems' = sems
             /\ handles' = handles]_vars

C6_Witness ==
    /\ last.op = "open_or_create"
    /\ HasNul(last.name)
    /\ last.res = "NulError"
    /\ last.opens = 1
    /\ last.creates = 1
    /\ last.sys = 0
    /\ sems[NameA].exists

RECURSIVE SumCloses(_)
SumCloses(hs) ==
    IF hs = {} THEN 0
    ELSE LET h == CHOOSE k \in hs : TRUE
         IN handles[h].closes + SumCloses(hs \ {h})

\* C8: every constructed handle is closed exactly once, when it is dropped and
\* not before; nothing is done through a handle after its close; a constructor
\* that fails builds no handle: the close calls made are as many as the handles
\* dropped and no more than the handles constructed.
C8_CloseOncePerHandle ==
    /\ \A h \in HandleIds :
          handles[h].closes = IF handles[h].st = "dropped" THEN 1 ELSE 0
    /\ \A h \in Live :
          /\ handles[h].raw \in OsNames
          /\ sems[handles[h].raw].exists
          /\ handles[h].owner \in Procs
    /\ last.op \in {"post", "wait", "get_value"} => last.h \in Live
    /\ \A p \in Procs : pc[p] = "blocked" => Owns(p, frame[p].h)
    /\ (last.op \in Constructors /\ last.res # "Ok") => last.h = 0
    /\ SumCloses(HandleIds) = Cardinality(Dropped)
    /\ SumCloses(HandleIds) <= Cardinality(Live \cup Dropped)

C8_Witness ==
    /\ last.op = "drop"
    /\ Dropped # {}
    /\ Live # {}
    /\ SumCloses(HandleIds) = 1

\* C9: open of a name that no semaphore has fails with ENOENT, returns no
\* handle and creates nothing; no open passes a mode or an initial count, asks
\* for creation, or changes any semaphore.
C9_OpenNeverCreates ==
    [][last'.op = "open"
          => /\ sems' = sems
             /\ ~last'.sent
             /\ ~HasBit(last'.oflag, O_CREAT)
             /\ (Fresh(last'.name) /\ ~HasNul(last'.name))
                => /\ last'.res = "ENOENT"
                   /\ last'.h = 0
                   /\ handles' = handles
                   /\ (Fresh(last.name))']_vars

C9_Witness ==
    /\ last.op = "open"
    /\ ~HasNul(last.name)
    /\ last.res = "ENOENT"
    /\ last.sys = 1
    /\ ~sems[NameA].exists

\* C10: open_or_create makes its open first and once; it makes a create, once,
\* only after that open failed and never after it succeeded; its result is the
\* open's handle when the open succeeded and the create's result otherwise.
C10_OpenThenCreate ==
    /\ last.op = "open_or_create"
       => /\ last.opens = 1
          /\ last.creates \in {0, 1}
          /\ last.sys <= last.opens + last.creates
          /\ last.res = "pending" => (last.creates = 0 /\ last.openres # "Ok")
          /\ (last.res # "pending" /\ last.openres = "Ok")
             => (last.creates = 0 /\ last.res = "Ok" /\ last.h \in Live)
          /\ (last.res # "pending" /\ last.openres # "Ok")
             => (last.creates = 1 /\ last.res = last.createres)
          /\ last.res = "Ok" <=> last.h \in Live
    /\ \A p \in Procs :
          pc[p] = "ooc" => frame[p].openres \notin {"Ok", "none"}

C10_Witness ==
    /\ last.op = "open_or_create"
    /\ last.openres = "ENOENT"
    /\ last.creates = 1
    /\ last.createres = "EEXIST"
    /\ last.res = "EEXIST"

\* C11: a wait returns Ok only from a state where the count is above zero and
\* lowers it by exactly one in that step; no count is ever negative; a wait
\* made at count 0 blocks, and a blocked caller leaves sem_wait only from a
\* state where the count is above zero, which only a post can bring about.
C11_WaitNeedsCount ==
    [][/\ \A h \in HandleIds :
            (last'.op = "wait" /\ last'.h = h /\ last'.res = "Ok")
            => /\ sems[handles[h].raw].value > 0
               /\ sems'[handles[h].raw].value = sems[handles[h].raw].value - 1
       /\ \A h \in HandleIds :
            (last'.op = "wait" /\ last'.h = h /\ sems[handles[h].raw].value = 0)
            => /\ last'.res = "blocked"
               /\ \E p \in Procs : pc[p] = "idle" /\ pc'[p] = "blocked"
               /\ sems' = sems
       /\ \A p \in Procs :
            (pc[p] = "blocked" /\ pc'[p] # "blocked")
            => /\ sems[handles[frame[p].h].raw].value > 0
               /\ last'.op = "wait"
               /\ last'.res = "Ok"
       /\ \A n \in OsNames :
            /\ sems[n].value >= 0
            /\ sems'[n].value >= 0
            /\ (sems[n].exists /\ sems[n].value = 0 /\ sems'[n].value > 0)
               => last'.op = "post"]_vars

C11_Witness ==
    /\ last.op = "wait"
    /\ last.res = "blocked"
    /\ \E p \in Procs :
          /\ pc[p] = "blocked"
          /\ frame[p].h = last.h
          /\ sems[handles[last.h].raw].value = 0

\* C12: whatever the interleaving of the processes' posts and waits, the count
\* of a semaphore is its initial count plus the posts that returned Ok minus
\* the waits that returned Ok (no update is lost), and that balance is never
\* below zero: the waits that returned never outnumber the initial count plus
\* the posts that returned.
C12_NoLostUpdate ==
    \A n \in OsNames :
        /\ sems[n].exists => sems[n].value = acct[n]
        /\ acct[n] >= 0

C12_Witness ==
    /\ last.op = "wait"
    /\ last.res = "Ok"
    /\ \E h, k \in Live :
          /\ h = last.h
          /\ handles[k].raw = handles[h].raw
          /\ handles[k].owner # handles[h].owner
          /\ rt[h].on
          /\ rt[h].bal = -1
          /\ sems[handles[h].raw].value = acct[handles[h].raw]

\* C13: a get_value step changes nothing of the semaphore: not its count, not
\* who is blocked on it, not the live handles, not the names that exist.  It
\* returns Ok with exactly the count sem_getvalue reports, and two get_value
\* steps on the same semaphore in a row return the same value.
C13_GetValueReadOnly ==
    [][\A h \in HandleIds :
         (last'.op = "get_value" /\ last'.h = h)
         => /\ sems' = sems
            /\ handles' = handles
            /\ pc' = pc
            /\ frame' = frame
            /\ acct' = acct
            /\ maps' = maps
            /\ last'.res = "Ok"
            /\ last'.val = sem_getvalue(handles[h].raw).sval
            /\ last'.val = sems[handles[h].raw].value
            /\ (last.op = "get_value"
                /\ last.h \in HandleIds
                /\ handles[last.h].raw = handles[h].raw)
               => last'.val = last.val]_vars

C13_Witness ==
    /\ last.op = "get_value"
    /\ last.res = "Ok"
    /\ last.val = SemValueMax
    /\ sems[handles[last.h].raw].value = SemValueMax
    /\ \E k \in Live : k # last.h /\ handles[k].raw = handles[last.h].raw

\* C14: the request create sends has the create bit and, exactly when
\* create_exclusive is set, the exclusivity bit, and nothing else; the request
\* open sends is 0 (no creation, no exclusivity) and carries no mode or value;
\* the exclusivity bit is never sent without the create bit; the permission
\* bits sent, and those a semaphore was made with, are a union of the whole
\* owner, group and other bit groups.
WholeGroups(m) ==
    /\ m \in 0..(S_IRWXU + S_IRWXG + S_IRWXO)
    /\ \A g \in {S_IRWXU, S_IRWXG, S_IRWXO} :
          \/ \A b \in AllBits : HasBit(g, b) => HasBit(m, b)
          \/ \A b \in AllBits : HasBit(g, b) => ~HasBit(m, b)
CreateRequest ==
    /\ HasBit(last.oflag, O_CREAT)
    /\ HasBit(last.oflag, O_EXCL) <=> last.excl
    /\ last.oflag \in {O_CREAT, O_CREAT + O_EXCL}
    /\ last.sent
    /\ WholeGroups(last.mode)
OpenRequest ==
    /\ last.oflag = 0
    /\ ~last.sent
    /\ last.mode = 0
C15_CreateAttaches ==
    [][\A n \in OsNames :
         (/\ last'.op = "create"
          /\ last'.name = n
          /\ ~last'.excl
          /\ ~last'.fresh)
         => /\ sems[n].exists
            /\ last'.res = "Ok"
            /\ last'.h \in HandleIds
            /\ handles[last'.h].st = "unused"
            /\ handles'[last'.h].st = "live"
            /\ handles'[last'.h].raw = n
            /\ sems' = sems
            /\ acct' = acct
            /\ (get_value_call(n).val)' = sems[n].value]_vars

C15_Witness ==
    /\ last.op = "create"
    /\ ~last.excl
    /\ ~last.fresh
    /\ last.res = "Ok"
    /\ last.value = SemValueMax + 1
    /\ sems[last.name].value = 0
    /\ handles[last.h].st = "live"

\* C16: open_or_create goes on to create after every failure of its open, the
\* malformed name as well as the missing semaphore; the error of the open is
\* not what the call returns: when open_or_create fails, create was called and
\* the result is the result of create.
C16_FallbackOnAnyFailure ==
    /\ (last.op = "open_or_create" /\ last.res = "pending")
       => /\ last.openres # "Ok"
          /\ \E p \in Procs : pc[p] = "ooc" /\ frame[p].openres = last.openres
    /\ (last.op = "open_or_create" /\ last.openres # "Ok"
        /\ last.res # "pending")
       => /\ last.creates = 1
          /\ last.res = last.createres
    /\ (last.op = "open_or_create" /\ last.res \notin {"Ok", "pending"})
       => /\ last.opens = 1
          /\ last.openres # "Ok"
          /\ last.creates = 1
          /\ last.res = last.createres
    /\ \A p \in Procs :
          pc[p] = "ooc" => frame[p].openres \in {"ENOENT", "NulError"}

C16_Witness ==
    /\ last.op = "open_or_create"
    /\ last.openres = "ENOENT"
    /\ last.creates = 1
    /\ last.createres = "EINVAL"
    /\ last.res = "EINVAL"
    /\ last.h = 0

\* C17: the layer sets no upper bound of its own: a post below SEM_VALUE_MAX
\* returns Ok and raises the count, a post at SEM_VALUE_MAX returns the
\* system's overflow error as Err and leaves the count as it was; a post, wait
\* or get_value that returns an error leaves the name space unchanged.
C17_OverflowIsErr ==
    [][/\ \A h \in HandleIds :
            (last'.op = "post" /\ last'.h = h)
            => IF sems[handles[h].raw].value = SemValueMax
               THEN /\ last'.res = "EOVERFLOW"
                    /\ sems' = sems
                    /\ acct' = acct
               ELSE /\ last'.res = "Ok"
                    /\ sems'[handles[h].raw].value
                          = sems[handles[h].raw].value + 1
       /\ (/\ last'.op \in {"post", "wait", "get_value"}
           /\ last'.res \notin {"Ok", "blocked"})
          => sems' = sems
       /\ \A n \in OsNames : sems'[n].value <= SemValueMax]_vars

C17_Witness ==
    /\ last.op = "post"
    /\ last.res = "EOVERFLOW"
    /\ sems[handles[last.h].raw].value = SemValueMax
    /\ acct[handles[last.h].raw] = SemValueMax

\* C18: handles are released one by one, not by name: several live handles on
\* one name may exist; a drop changes no other handle and not the name space,
\* makes exactly one sem_close on the dropped value, and every handle that is
\* still live keeps a reference on its owner's mapping, so it stays usable;
\* a process holds as many references as it has live handles.
HeldBy(p, n) ==
    {k \in HandleIds : handles[k].st = "live" /\ handles[k].owner = p
                       /\ handles[k].raw = n}
C18_HandlesIndependent ==
    [][/\ \A h \in HandleIds :
            (last'.op = "drop" /\ last'.h = h)
            => /\ sems' = sems
               /\ \A k \in HandleIds \ {h} : handles'[k] = handles[k]
               /\ handles[h].st = "live"
               /\ handles'[h].st = "dropped"
               /\ handles'[h].closes = 1
               /\ \A k \in HandleIds \ {h} :
                     handles[k].st = "live"
                     => (maps[handles[k].owner][handles[k].raw])' >= 1
       /\ \A p \in Procs, n \in OsNames :
            maps[p][n] = Cardinality(HeldBy(p, n))
       /\ \A k \in HandleIds :
            handles[k].st = "live" => handles[k].closes = 0]_vars

C18_Witness ==
    /\ last.op = "drop"
    /\ handles[last.h].st = "dropped"
    /\ handles[last.h].closes = 1
    /\ \E k \in Live :
          /\ rt[k].on
          /\ maps[handles[k].owner][handles[k].raw] = 1
          /\ sems[handles[k].raw].value = rt[k].base + rt[k].bal

====
